---- MODULE Spec2Model ----
(***************************************************************************)
(* FastStockAPI: the polling / caching / subscription engine               *)
(* (app/cache.py, app/fetcher.py, app/main.py).                            *)
(*                                                                         *)
(* Strings are modelled as sequences of one-character strings so that      *)
(* str.upper(), str.strip(), str.split(",") and the substring test of      *)
(* is_crypto_symbol are computed character by character.                   *)
(*                                                                         *)
(* Scheduling: everything runs on one asyncio event loop.  Coroutines      *)
(* interleave only at awaits that really suspend (network I/O,             *)
(* asyncio.sleep).  `async with self._lock` in InMemoryCache never         *)
(* suspends because no holder of the lock suspends while holding it, so    *)
(* each cache operation is one atomic step.  A process kill, in contrast,  *)
(* can fall between any two system calls.                                  *)
(***************************************************************************)
EXTENDS Integers, Sequences, FiniteSets, TLC

\* ------------------------------------------------------------------ bounds
\* number of poller loop iterations explored (the `while True` loop)
MaxPasses == 2

\* seconds of wall clock explored by the option-chain handlers
MaxClock == 1

\* number of option-chain fetch requests explored
MaxRequests == 2

\* number of rows of the frames handed to calculate_pcr
MaxRows == 2

\* number of rows of an upstream option chain handed to the flattening
MaxChainRows == 3

\* number of rows of a flattened chain handed to calculate_max_pain
MaxPainRows == 2

\* number of buffers a file's content is written in
Chunks == 2

\* number of snapshot files written while a reader is watched
MaxWrites == 3

\* ------------------------------------------------------------ text helpers
LowerAlpha ==
  <<"a","b","c","d","e","f","g","h","i","j","k","l","m","n","o","p","q","r","s","t","u","v","w","x","y","z">>

UpperAlpha ==
  <<"A","B","C","D","E","F","G","H","I","J","K","L","M","N","O","P","Q","R","S","T","U","V","W","X","Y","Z">>

\* one character of str.upper()
UpperChar(c) ==
  IF \E i \in 1..Len(LowerAlpha) : LowerAlpha[i] = c
  THEN UpperAlpha[CHOOSE i \in 1..Len(LowerAlpha) : LowerAlpha[i] = c]
  ELSE c

\* str.upper()
Upper(s) == [i \in 1..Len(s) |-> UpperChar(s[i])]

IsSpace(c) == c = " "

\* str.strip(): drop leading and trailing white space
Strip(s) ==
  LET idx == {i \in 1..Len(s) : ~IsSpace(s[i])}
  IN  IF idx = {} THEN <<>>
      ELSE LET lo == CHOOSE i \in idx : \A j \in idx : i <= j
               hi == CHOOSE i \in idx : \A j \in idx : j <= i
           IN  SubSeq(s, lo, hi)

\* str.split(","): the pieces between the commas, empty pieces included
RECURSIVE SplitComma(_)
SplitComma(s) ==
  LET commas == {i \in 1..Len(s) : s[i] = ","}
  IN  IF commas = {} THEN <<s>>
      ELSE LET c == CHOOSE i \in commas : \A j \in commas : i <= j
           IN  <<SubSeq(s, 1, c - 1)>> \o SplitComma(SubSeq(s, c + 1, Len(s)))

\* `pattern in symbol` for two str values
Contains(pattern, s) ==
  \E i \in 1..(Len(s) - Len(pattern) + 1) : SubSeq(s, i, i + Len(pattern) - 1) = pattern

\* `x in lst` for a list
InList(x, lst) == \E i \in 1..Len(lst) : lst[i] = x

Range(lst) == {lst[i] : i \in 1..Len(lst)}

\* one character of str.lower()
LowerChar(c) ==
  IF \E i \in 1..Len(UpperAlpha) : UpperAlpha[i] = c
  THEN LowerAlpha[CHOOSE i \in 1..Len(UpperAlpha) : UpperAlpha[i] = c]
  ELSE c

\* str.lower()
Lower(s) == [i \in 1..Len(s) |-> LowerChar(s[i])]

Digits == <<"0","1","2","3","4","5","6","7","8","9">>

\* str.isdigit() for a non-empty str
IsDigits(s) == Len(s) > 0 /\ \A i \in 1..Len(s) : InList(s[i], Digits)

\* str.replace(a, b) for one-character a and b
ReplaceChar(s, a, b) == [i \in 1..Len(s) |-> IF s[i] = a THEN b ELSE s[i]]

\* str.startswith / str.endswith
StartsWith(s, prefix) == Len(prefix) <= Len(s) /\ SubSeq(s, 1, Len(prefix)) = prefix
EndsWith(s, suffix) ==
  Len(suffix) <= Len(s) /\ SubSeq(s, Len(s) - Len(suffix) + 1, Len(s)) = suffix

\* the characters of file names in code point order
CodePoints == <<" ", "-", ".", "/">> \o Digits \o UpperAlpha \o <<"_">> \o LowerAlpha

Ord(c) == CHOOSE i \in 1..Len(CodePoints) : CodePoints[i] = c

\* a < b for two str values: code point order, a proper prefix comes first
StrLess(a, b) ==
  \E i \in 1..(Len(a) + 1) :
    /\ i <= Len(b)
    /\ \A j \in 1..(i - 1) : a[j] = b[j]
    /\ (i = Len(a) + 1 \/ Ord(a[i]) < Ord(b[i]))

\* sorted(names, reverse=True)[0] for a non-empty set of distinct names
LastInOrder(names) == CHOOSE f \in names : \A g \in names : g = f \/ StrLess(g, f)

\* the decimal digits of n, two wide ("%02d")
TwoDigits(n) == <<Digits[((n \div 10) % 10) + 1], Digits[(n % 10) + 1]>>

\* ---------------------------------------------------------------- symbols
sBTCUSDT    == <<"B","T","C","U","S","D","T">>
sBtcLower   == <<"b","t","c","u","s","d","t">>
sINFY       == <<"I","N","F","Y",".","N","S">>
sInfyPadded == <<" ","i","n","f","y",".","n","s"," ">>

\* symbols that HTTP clients send to POST /subscribe
SubscribeInputs == {sBTCUSDT, sBtcLower, sInfyPadded}

\* symbols that HTTP clients send to GET /quote/{symbol} and GET /fetch/{symbol}
PathInputs == {sBTCUSDT, sBtcLower, sINFY}

\* values of the FETCH_SYMBOLS environment variable ("unset" = not defined)
EnvMixed == <<" ","i","n","f","y",".","n","s"," ",",","I","N","F","Y",".","N","S">>
EnvEmpty == <<>>
EnvUnset == [defined |-> FALSE, value |-> <<>>]
EnvSet(v) == [defined |-> TRUE, value |-> v]
EnvChoices == {EnvUnset, EnvSet(EnvMixed), EnvSet(EnvEmpty)}

\* os.getenv("FETCH_SYMBOLS", "RELIANCE.NS,INFY.NS")
DefaultFetchSymbols ==
  <<"R","E","L","I","A","N","C","E",".","N","S",",","I","N","F","Y",".","N","S">>

\* values of the PROVIDER environment variable, already upper-cased
ProviderChoices == {"YFINANCE"}

\* prices an upstream may report
UpstreamPrices == {5}

\* upstream symbols whose behaviour is fixed for a whole run
HealthKeys == {sBTCUSDT, sINFY}
HealthModes == {"ok", "fail"}

\* Python's None for an Optional[dict]: an optional value is a sequence of
\* length 0 (None) or 1
None == <<>>
Some(q) == <<q>>

\* ------------------------------------------------------------ app/cache.py
\* a faulty variant of CacheKey: the symbol is used as it comes
CacheKeyRaw(symbol) == symbol

\* the dict key used by InMemoryCache.set and InMemoryCache.get
CacheKey(symbol) == Upper(symbol)

\* self.store[symbol.upper()] = quote
CacheSet(st, symbol, quote) ==
  [k \in (DOMAIN st) \cup {CacheKey(symbol)} |->
      IF k = CacheKey(symbol) THEN quote ELSE st[k]]

\* self.store.get(symbol.upper())
CacheGet(st, symbol) ==
  IF CacheKey(symbol) \in DOMAIN st THEN Some(st[CacheKey(symbol)]) ELSE None

\* a faulty variant of CacheGetAll: the store itself is handed out, not a copy
CacheGetAllAlias(st) == [ref |-> "store", copy |-> [k \in {} |-> 0]]

\* dict(self.store): a new dict object with the same items
CacheGetAll(st) == [ref |-> "copy", copy |-> st]

\* the items of a mapping handed out by get_all, read through its reference
Deref(mapping, st) == IF mapping.ref = "store" THEN st ELSE mapping.copy

\* ---------------------------------------------------------- app/fetcher.py
crypto_patterns ==
  << <<"U","S","D","T">>, <<"B","T","C">>, <<"E","T","H">>, <<"B","N","B">>,
     <<"A","D","A">>, <<"S","O","L">>, <<"D","O","T">>, <<"A","V","A","X">>,
     <<"M","A","T","I","C">>, <<"L","I","N","K">>, <<"U","N","I">>,
     <<"A","A","V","E">>, <<"S","U","S","H","I">>, <<"C","O","M","P">>,
     <<"M","K","R">>, <<"Y","F","I">>, <<"B","A","L">>, <<"C","R","V">>,
     <<"X","R","P">>, <<"L","T","C">>, <<"B","C","H">>, <<"E","T","C">>,
     <<"D","O","G","E">>, <<"S","H","I","B">>, <<"C","A","K","E">>,
     <<"S","X","P">>, <<"A","L","I","C","E">> >>

is_crypto_symbol(symbol) ==
  \E i \in 1..Len(crypto_patterns) : Contains(crypto_patterns[i], Upper(symbol))

\* PROVIDER_MAP.get(PROVIDER, yfinance_provider)
PROVIDER_MAP(name) ==
  IF name \in {"YFINANCE", "FINNHUB", "ALPHAVANTAGE"} THEN name ELSE "YFINANCE"

\* a faulty variant of get_provider_for_symbol: the crypto rule is missing
get_provider_no_crypto(symbol, provider) == PROVIDER_MAP(provider)

\* a faulty variant of get_provider_for_symbol: an exchange suffix is looked
\* at before the crypto tokens
get_provider_suffix_first(symbol, provider) ==
  IF EndsWith(Upper(symbol), <<".","N","S">>) THEN PROVIDER_MAP(provider)
  ELSE IF is_crypto_symbol(symbol) THEN "BINANCE" ELSE PROVIDER_MAP(provider)

get_provider_for_symbol(symbol, provider) ==
  IF is_crypto_symbol(symbol) THEN "BINANCE" ELSE PROVIDER_MAP(provider)

\* the subscription document on disk: absent, a complete JSON document, or a
\* file that open(SUB_FILE, "w") has truncated and json.dump has not yet
\* completed ("torn")
DocMissing == [state |-> "missing", symbols |-> <<>>]
DocOk(lst) == [state |-> "ok", symbols |-> lst]
DocTorn == [state |-> "torn", symbols |-> <<>>]

\* load_subscriptions(): [] when the file is missing or json.load raises
load_subscriptions(d) == IF d.state = "ok" THEN d.symbols ELSE <<>>

\* [s.strip() for s in start_symbols.split(",") if s.strip()]
StripAll(parts) ==
  LET RECURSIVE go(_)
      go(i) == IF i > Len(parts) THEN <<>>
               ELSE (IF Strip(parts[i]) # <<>> THEN <<Strip(parts[i])>> ELSE <<>>)
                    \o go(i + 1)
  IN  go(1)

\* the fallback list of background_fetcher
EnvSymbols(env) ==
  StripAll(SplitComma(IF env.defined THEN env.value ELSE DefaultFetchSymbols))

\* what background_fetcher assigns to app.state.subscriptions
InitialSubscriptions(d, env) ==
  IF load_subscriptions(d) # <<>> THEN load_subscriptions(d) ELSE EnvSymbols(env)

\* ---------------------------------------------------------- app/providers
\* the record an adapter returns on success; Binance echoes the symbol of the
\* upstream answer (the request carries symbol.upper()), the others return
\* symbol.upper()
AdapterQuote(adapter, symbol, price, ts) ==
  [symbol |-> Upper(symbol), price |-> price, timestamp |-> ts]

\* calls of one adapter with one symbol succeed, fail, or vary, as the
\* upstream's health for that symbol says; "ok" = a quote, "none" = the adapter
\* returns None, "raise" = the call raises an Exception
AdapterOutcomes(mode) ==
  CASE mode = "ok"   -> {"ok"}
    [] mode = "fail" -> {"none", "raise"}
    [] OTHER         -> {"ok", "none", "raise"}

\* the prices an adapter puts into its quote: Finnhub takes
\* float(data.get("c", 0)), so an answer without "c" (or with c = 0, which
\* Finnhub sends for a symbol it does not know) becomes a quote of price 0;
\* the record is a non-empty dict and therefore true for `if q:`
AdapterPrices(adapter) ==
  IF adapter = "FINNHUB" THEN UpstreamPrices \cup {0} ELSE UpstreamPrices

\* a history mapping with the entry for `key` replaced
Recorded(h, key, v) == [k \in (DOMAIN h) \cup {key} |-> IF k = key THEN v ELSE h[k]]

\* ------------------------------------------------ app/routes/options.py
Abs(x) == IF x < 0 THEN -x ELSE x
Max(x, y) == IF x > y THEN x ELSE y
Min(x, y) == IF x < y THEN x ELSE y

\* sorted(S) for a set of numbers
RECURSIVE SortedSeq(_)
SortedSeq(S) ==
  IF S = {} THEN <<>>
  ELSE LET m == CHOOSE x \in S : \A y \in S : x <= y
       IN  <<m>> \o SortedSeq(S \ {m})

\* a[lo:hi] of a Python list, lo and hi zero-based and possibly negative or
\* beyond the end
PySlice(a, lo, hi) ==
  LET n  == Len(a)
      l  == IF lo < 0 THEN Max(lo + n, 0) ELSE Min(lo, n)
      h  == IF hi < 0 THEN Max(hi + n, 0) ELSE Min(hi, n)
  IN  IF h <= l THEN <<>> ELSE SubSeq(a, l + 1, h)

\* the names of an index after index.strip().upper()
NormalizedName(s) ==
  CASE s \in {<<"N","I","F","T","Y","5","0">>, <<"N","I","F","T","Y">>, <<"N","S","E","I">>} -> <<"N","I","F","T","Y">>
       [] s \in {<<"B","A","N","K","N","I","F","T","Y">>, <<"N","S","E","B","A","N","K">>} -> <<"B","A","N","K","N","I","F","T","Y">>
       [] s \in {<<"S","E","N","S","E","X">>, <<"B","S","E","S","N">>} -> <<"S","E","N","S","E","X">>
       [] s \in {<<"B","A","N","K","E","X">>, <<"B","S","E","B","A","N","K">>} -> <<"B","A","N","K","E","X">>
       [] s \in {<<"A","U","T","O">>, <<"C","N","X","A","U","T","O">>} -> <<"A","U","T","O">>
       [] s \in {<<"F","I","N","A","N","C","E">>, <<"C","N","X","F","I","N">>} -> <<"F","I","N","A","N","C","E">>
       [] s \in {<<"I","T">>, <<"C","N","X","I","T">>} -> <<"I","T">>
       [] s \in {<<"M","E","T","A","L">>, <<"C","N","X","M","E","T","A","L">>} -> <<"M","E","T","A","L">>
       [] s \in {<<"P","H","A","R","M","A">>, <<"C","N","X","P","H","A","R","M","A">>} -> <<"P","H","A","R","M","A">>
       [] s \in {<<"R","E","A","L","T","Y">>, <<"C","N","X","R","E","A","L","T","Y">>} -> <<"R","E","A","L","T","Y">>
       [] OTHER -> s

\* _normalize_index_name
normalize_index_name(index) ==
  IF index = <<>> THEN <<>> ELSE NormalizedName(Upper(Strip(index)))

\* expiry dates as NSE writes them, and a caller's DDMMYY form of the first
Sep30 == <<"3","0","-","S","e","p","-","2","0","2","5">>
Oct07 == <<"0","7","-","O","c","t","-","2","0","2","5">>
Sep30Short == <<"3","0","0","9","2","5">>

\* index names that clients send
IndexInputs == {<<" ","n","i","f","t","y","5","0">>}

\* expiries that clients send to POST /options/fetch/expiry
ExpiryInputs == {Sep30, Sep30Short, Oct07}

\* num_strikes values that clients send (the schema accepts every int)
NumStrikesInputs == {-1, 0}

\* one entry of records.data
NseRow(strike, expiry) == [strikePrice |-> strike, expiryDate |-> expiry]

\* answers of nsepython.option_chain: a chain with two expiries and the
\* underlying between two strikes; a chain whose underlying is above every
\* strike; an answer without "records"
NseTwoExpiries ==
  [valid |-> TRUE, expiryDates |-> <<Sep30, Oct07>>,
   data |-> <<NseRow(300, Sep30), NseRow(100, Sep30), NseRow(200, Sep30),
              NseRow(100, Oct07), NseRow(200, Oct07)>>,
   underlyingValue |-> 190]

NseAboveStrikes ==
  [valid |-> TRUE, expiryDates |-> <<Sep30>>,
   data |-> <<NseRow(100, Sep30), NseRow(200, Sep30)>>,
   underlyingValue |-> 250]

NseBroken == [valid |-> FALSE, expiryDates |-> <<>>, data |-> <<>>, underlyingValue |-> 0]

NseChoices == {NseTwoExpiries, NseAboveStrikes, NseBroken}

\* a Python exception on its way up; status is meaningful for HTTPException
NoExc == [exc |-> "none", status |-> 0]
Raised(exc) == [exc |-> exc, status |-> 0]
HTTPException(status) == [exc |-> "HTTPException", status |-> status]

\* expiries = resp['records'].get('expiryDates', []) and the choice of the
\* expiry: expiries[0] for POST /options/fetch, the caller's expiry_date for
\* POST /options/fetch/expiry
ChooseExpiry(endpoint, resp, expiry_date) ==
  IF ~resp.valid THEN [err |-> Raised("KeyError"), expiry |-> <<>>]
  ELSE IF endpoint = "fetch"
       THEN IF resp.expiryDates = <<>>
            THEN [err |-> Raised("RuntimeError"), expiry |-> <<>>]
            ELSE [err |-> NoExc, expiry |-> resp.expiryDates[1]]
       ELSE IF ~InList(expiry_date, resp.expiryDates)
            THEN [err |-> HTTPException(422), expiry |-> <<>>]
            ELSE [err |-> NoExc, expiry |-> expiry_date]

\* _prepare_option_chain_df: the rows of the expiry
prepare_option_chain_df(resp, expiry) ==
  LET OfExpiry(r) == r.expiryDate = expiry
      df == SelectSeq(resp.data, OfExpiry)
  IN  IF ~resp.valid \/ resp.data = <<>> \/ df = <<>>
      THEN [err |-> Raised("RuntimeError"), df |-> <<>>]
      ELSE [err |-> NoExc, df |-> df]

\* bisect.bisect_left(strikes, x): zero-based insertion point
bisect_left(strikes, x) == Cardinality({i \in 1..Len(strikes) : strikes[i] < x})

\* df[df.strikePrice.isin(ks)].sort_values(['strikePrice']) for ascending ks
RECURSIVE RowsInOrder(_, _)
RowsInOrder(df, ks) ==
  IF ks = <<>> THEN <<>>
  ELSE LET AtStrike(r) == r.strikePrice = Head(ks)
       IN  SelectSeq(df, AtStrike) \o RowsInOrder(df, Tail(ks))

\* _select_strikes_and_save up to df_final (lines 134-144); indices are
\* zero-based as in the source
select_strikes(df, resp, num_strikes) ==
  LET underlying_value == resp.underlyingValue
      strikes == SortedSeq({df[i].strikePrice : i \in 1..Len(df)})
      at == bisect_left(strikes, underlying_value)
      Nothing == [err |-> NoExc, strikes |-> strikes, atm |-> 0, selected |-> <<>>, final |-> <<>>]
  IN  IF strikes = <<>> THEN [Nothing EXCEPT !.err = Raised("RuntimeError")]
      ELSE IF at > 0 /\ at >= Len(strikes) THEN [Nothing EXCEPT !.err = Raised("IndexError")]
      ELSE LET atm_strike_index ==
                 IF at > 0 /\ Abs(strikes[at] - underlying_value) < Abs(strikes[at + 1] - underlying_value)
                 THEN at - 1 ELSE at
               low_index == Max(0, atm_strike_index - num_strikes)
               high_index == Min(Len(strikes) - 1, atm_strike_index + num_strikes)
               selected_strikes == PySlice(strikes, low_index, high_index + 1)
           IN  [err |-> NoExc, strikes |-> strikes, atm |-> atm_strike_index,
                selected |-> selected_strikes, final |-> RowsInOrder(df, selected_strikes)]

\* datetime.now().strftime("%Y-%m-%d_%H-%M-%S") at second t of the day's
\* first minute
strftime(t) == <<"2","0","2","5","-","0","9","-","1","6","_","1","0","-","0","0","-">> \o TwoDigits(t)

\* base_filename of a snapshot (lines 146-147)
base_filename(index_name, expiry, t) ==
  LET safe_expiry == ReplaceChar(ReplaceChar(expiry, " ", "_"), "/", "-")
  IN  Lower(index_name) \o <<"_","o","p","t","i","o","n","_","c","h","a","i","n","_">> \o safe_expiry \o <<"_">> \o strftime(t)

DotCsv == <<".","c","s","v">>
DotJson == <<".","j","s","o","n">>

\* the metadata dict (lines 151-159); selected_strikes[0] needs a strike
NoMeta == <<>>
Metadata(index_name, expiry, resp, sel, t) ==
  IF sel.selected = <<>> THEN [err |-> Raised("IndexError"), meta |-> NoMeta]
  ELSE [err |-> NoExc,
        meta |-> <<[createdAtUTC |-> t, indexName |-> index_name, nearestExpiry |-> expiry,
                    underlyingValue |-> resp.underlyingValue,
                    atmStrike |-> sel.strikes[sel.atm + 1],
                    selectedStrikesRange |-> <<Head(sel.selected), sel.selected[Len(sel.selected)]>>,
                    totalStrikesFetched |-> Len(sel.final)]>>]

\* what a snapshot file holds; `by` is the request that wrote it and `at`
\* the second of the write
CsvFile(by, t, rows) == [by |-> by, at |-> t, rows |-> rows, meta |-> NoMeta]
JsonFile(by, t, meta) == [by |-> by, at |-> t, rows |-> <<>>, meta |-> meta]

\* except HTTPException: raise / except Exception: HTTPException(500)
ApiStatus(err) == IF err.exc = "HTTPException" THEN err.status ELSE 500

\* ---------------------------------------------- app/routes/analytics.py
\* month_names of convert_expiry_format, as (key, value) pairs
month_names ==
  {<<<<"0","1">>, <<"J","a","n">>>>,
   <<<<"0","2">>, <<"F","e","b">>>>,
   <<<<"0","3">>, <<"M","a","r">>>>,
   <<<<"0","4">>, <<"A","p","r">>>>,
   <<<<"0","5">>, <<"M","a","y">>>>,
   <<<<"0","6">>, <<"J","u","n">>>>,
   <<<<"0","7">>, <<"J","u","l">>>>,
   <<<<"0","8">>, <<"A","u","g">>>>,
   <<<<"0","9">>, <<"S","e","p">>>>,
   <<<<"1","0">>, <<"O","c","t">>>>,
   <<<<"1","1">>, <<"N","o","v">>>>,
   <<<<"1","2">>, <<"D","e","c">>>>}

\* convert_expiry_format: DDMMYY to DD-MMM-YYYY, anything else unchanged
convert_expiry_format(expiry) ==
  IF Len(expiry) = 6 /\ IsDigits(expiry)
  THEN LET day   == SubSeq(expiry, 1, 2)
           month == SubSeq(expiry, 3, 4)
           year  == <<"2","0">> \o SubSeq(expiry, 5, 6)
       IN  IF ~\E kv \in month_names : kv[1] = month
           THEN [err |-> Raised("ValueError"), value |-> <<>>]
           ELSE [err |-> NoExc,
                 value |-> day \o <<"-">> \o (CHOOSE kv \in month_names : kv[1] = month)[2]
                               \o <<"-">> \o year]
  ELSE [err |-> NoExc, value |-> expiry]

\* lines 86-101 of get_pcr, the same in get_max_pain, get_top_oi and
\* get_analytics_summary: the CSV names that start with the lower-cased index
\* as given, those of the expiry if one is given, the last of them in order
latest_csv(saved, index, expiry) ==
  LET idx == Upper(Strip(index))
      csv_files == {f \in DOMAIN saved : StartsWith(f, Lower(idx) \o <<"_">>) /\ EndsWith(f, DotCsv)}
      conv == IF expiry = None THEN [err |-> NoExc, value |-> <<>>]
              ELSE convert_expiry_format(expiry[1])
      nse_expiry == ReplaceChar(ReplaceChar(conv.value, " ", "_"), "/", "-")
      of_expiry == IF expiry = None THEN csv_files
                   ELSE {f \in csv_files : Contains(nse_expiry, f)}
  IN  IF csv_files = {} THEN [err |-> HTTPException(404), file |-> <<>>]
      ELSE IF conv.err # NoExc THEN [err |-> HTTPException(400), file |-> <<>>]
      ELSE IF of_expiry = {} THEN [err |-> HTTPException(404), file |-> <<>>]
      ELSE [err |-> NoExc, file |-> LastInOrder(of_expiry)]

\* ------------------------------- app/routes/market.py, app/main.py (crypto)
\* what the fetch behind an endpoint gives: "data", or "error" for the
\* not-found answer ({'error': ...} of fetch_index_price / fetch_stock_price,
\* None or an empty list of the Binance adapter)
FetchOutcomes == {"data", "error"}

\* the try body: `if 'error' in data` / `if data ... else` raise
\* HTTPException(status_code=404)
TryBody(outcome) == IF outcome = "error" THEN HTTPException(404) ELSE NoExc

\* try: ... except Exception as e: raise HTTPException(status_code=500);
\* HTTPException is an Exception
OnlyExceptException(err) == IF err = NoExc THEN 200 ELSE 500

\* try: ... except HTTPException: raise / except Exception: 500
ExceptHTTPExceptionFirst(err) == IF err = NoExc THEN 200 ELSE ApiStatus(err)

DotNS == <<".","N","S">>
sNIFTYIndex == <<"N","I","F","T","Y">>
sINFYBare == <<"I","N","F","Y">>

\* GET /price/index/{index}
get_index_price(outcome) == OnlyExceptException(TryBody(outcome))

\* GET /price/index?index=...
get_index_price_query(index, outcome) ==
  IF index = None \/ index = Some(<<>>) THEN 400
  ELSE IF Contains(DotNS, Upper(index[1])) \/ EndsWith(Upper(Strip(index[1])), DotNS) THEN 400
  ELSE ExceptHTTPExceptionFirst(TryBody(outcome))

\* GET /price/stock/{symbol}
get_stock_price(outcome) == OnlyExceptException(TryBody(outcome))

\* the data GET /price/stock?symbol=... ends with: the first lookup, or the
\* lookup of symbol + ".NS" when the first finds nothing
StockQueryData(symbol, first, second) ==
  IF first = "error" /\ ~EndsWith(Strip(Upper(symbol)), DotNS) THEN second ELSE first

\* GET /price/stock?symbol=...
get_stock_price_query(symbol, first, second) ==
  IF symbol = None \/ symbol = Some(<<>>) THEN 400
  ELSE ExceptHTTPExceptionFirst(TryBody(StockQueryData(symbol[1], first, second)))

\* GET /crypto/{symbol}
get_crypto_price(outcome) == OnlyExceptException(TryBody(outcome))

\* GET /crypto-historical/{symbol}
get_crypto_historical(outcome) == OnlyExceptException(TryBody(outcome))

\* GET /crypto-stats/{symbol}
get_crypto_stats(outcome) == OnlyExceptException(TryBody(outcome))

Endpoints ==
  {"get_index_price", "get_index_price_query", "get_stock_price", "get_stock_price_query",
   "get_crypto_price", "get_crypto_historical", "get_crypto_stats"}

\* index and symbol query parameters that clients send (None = not given)
IndexQueryInputs == {None, Some(sNIFTYIndex), Some(sINFY)}
StockQueryInputs == {None, Some(sINFYBare), Some(sINFY)}

\* an endpoint that has not been called; "invalid" = rejected before the fetch
NotCalled == [outcome |-> "none", status |-> 0]
Reply(outcome, status) == [outcome |-> outcome, status |-> status]

\* ------------------------------------ calculate_pcr (options.py, analytics.py)
\* a cell without a value
NaN == <<>>

\* open-interest and volume cells of a saved snapshot
OICells == {NaN, Some(0), Some(1), Some(8)}

\* a column of n cells; a frame may lack the column
OIColumns(n) == {None} \cup {Some(c) : c \in [1..n -> OICells]}
VolColumns(n) == {None, Some([i \in 1..n |-> NaN]), Some([i \in 1..n |-> Some(2)])}

\* the frames of n rows
Frames(n) ==
  [PE_openInterest : OIColumns(n), CE_openInterest : OIColumns(n),
   PE_totalTradedVolume : VolColumns(n), CE_totalTradedVolume : VolColumns(n)]

EmptyFrame ==
  [PE_openInterest |-> None, CE_openInterest |-> None,
   PE_totalTradedVolume |-> None, CE_totalTradedVolume |-> None]

\* Series.fillna(0)
fillna0(col) == [i \in 1..Len(col) |-> IF col[i] = NaN THEN 0 ELSE col[i][1]]

\* Series.sum() of a column without NaN
RECURSIVE SeriesSum(_)
SeriesSum(col) == IF col = <<>> THEN 0 ELSE Head(col) + SeriesSum(Tail(col))

\* a float result in hundredths, or not a number, or infinity
Float(h) == [kind |-> "float", hundredths |-> h]
NotANumber == [kind |-> "nan", hundredths |-> 0]
Infinity == [kind |-> "inf", hundredths |-> 0]

\* round(x, 2) for x = a / b, b > 0: to the nearest hundredth, a tie to the
\* even one (the ties of these cell values are binary fractions, so the float
\* is the exact quotient)
Round2(a, b) ==
  LET q == (100 * a) \div b
      r == (100 * a) % b
  IN  IF 2 * r < b THEN q
      ELSE IF 2 * r > b THEN q + 1
      ELSE IF q % 2 = 0 THEN q ELSE q + 1

\* round(a / b, 2) of two numpy totals: a zero divisor gives nan or inf
RoundedRatio(a, b) ==
  IF b = 0 THEN (IF a = 0 THEN NotANumber ELSE Infinity) ELSE Float(Round2(a, b))

\* a faulty variant of PcrOf: the `if total_ce > 0` test is missing
PcrOfUnguarded(pe, ce) ==
  IF pe # None /\ ce # None
  THEN RoundedRatio(SeriesSum(fillna0(pe[1])), SeriesSum(fillna0(ce[1])))
  ELSE Float(0)

\* one ratio of calculate_pcr: 0.0 unless both columns exist and the CE total
\* is above zero
PcrOf(pe, ce) ==
  IF pe # None /\ ce # None
  THEN LET total_pe == SeriesSum(fillna0(pe[1]))
           total_ce == SeriesSum(fillna0(ce[1]))
       IN  IF total_ce > 0 THEN RoundedRatio(total_pe, total_ce) ELSE Float(0)
  ELSE Float(0)

\* calculate_pcr
calculate_pcr(frame) ==
  [pcr_by_oi     |-> PcrOf(frame.PE_openInterest, frame.CE_openInterest),
   pcr_by_volume |-> PcrOf(frame.PE_totalTradedVolume, frame.CE_totalTradedVolume)]

\* ------------------- app/routes/options.py _expand_side, lines 128-130
\* the map NSE sends for one side (CE or PE) of one strike of one expiry
SideMap(side, strike, expiry) ==
  [strikePrice |-> strike, expiryDate |-> expiry, identifier |-> side]

\* one element of records.data: the strike, the expiry and, where NSE lists
\* the contract, the CE and the PE map; kinds "both", "CE", "PE", "none" are
\* of the nearest expiry, "later" is a row of the following one
RowKinds == {"both", "CE", "PE", "none", "later"}

ChainRow(strike, kind) ==
  LET expiry == IF kind = "later" THEN Oct07 ELSE Sep30
  IN  [strikePrice |-> strike, expiryDate |-> expiry,
       CE |-> IF kind \in {"both", "CE", "later"} THEN Some(SideMap("CE", strike, expiry)) ELSE NaN,
       PE |-> IF kind \in {"both", "PE", "later"} THEN Some(SideMap("PE", strike, expiry)) ELSE NaN]

\* valid_rows[side].apply(pd.Series): the maps of the rows whose cell is a
\* dict, in row order; no row (and no column) when there is none
expand_side(df, side) ==
  LET IsDict(r) == r[side] # NaN
      valid_rows == SelectSeq(df, IsDict)
  IN  [i \in 1..Len(valid_rows) |-> valid_rows[i][side][1]]

\* pd.concat([df[['strikePrice', 'expiryDate']].reset_index(drop=True),
\*            ce_data.reset_index(drop=True), pe_data.reset_index(drop=True)], axis=1):
\* the three frames are joined on their new positions 0, 1, 2, ...
\* df[side] is a column of df_full: it exists when some element of
\* records.data, of whatever expiry, has the key, and df[side] raises
\* KeyError when none has
df_processed(data, df) ==
  LET ce_data == expand_side(df, "CE")
      pe_data == expand_side(df, "PE")
  IN  IF \E side \in {"CE", "PE"} : \A i \in 1..Len(data) : data[i][side] = NaN
      THEN [err |-> Raised("KeyError"), df |-> <<>>]
      ELSE [err |-> NoExc,
            df |-> [i \in 1..Len(df) |->
                     [strikePrice |-> df[i].strikePrice, expiryDate |-> df[i].expiryDate,
                      CE |-> IF i <= Len(ce_data) THEN Some(ce_data[i]) ELSE NaN,
                      PE |-> IF i <= Len(pe_data) THEN Some(pe_data[i]) ELSE NaN]]]

\* --------------------------- app/routes/options.py calculate_max_pain
\* a row of a flattened chain as calculate_max_pain reads it; a cell is a
\* number or NaN
PainRow(strike, ce_oi, ce_last, pe_oi, pe_last) ==
  [strikePrice |-> strike, CE_openInterest |-> ce_oi, CE_lastPrice |-> ce_last,
   PE_openInterest |-> pe_oi, PE_lastPrice |-> pe_last]

\* for _, row in ce_data.iterrows(): if row['strikePrice'] > strike_price:
\*   loss += (row['strikePrice'] - strike_price) * row['CE_openInterest']
RECURSIVE CallLoss(_, _)
CallLoss(ce_data, strike_price) ==
  IF ce_data = <<>> THEN 0
  ELSE (IF Head(ce_data).strikePrice > strike_price
        THEN (Head(ce_data).strikePrice - strike_price) * Head(ce_data).CE_openInterest[1]
        ELSE 0) + CallLoss(Tail(ce_data), strike_price)

\* for _, row in pe_data.iterrows(): if row['strikePrice'] < strike_price:
\*   loss += (strike_price - row['strikePrice']) * row['PE_openInterest']
RECURSIVE PutLoss(_, _)
PutLoss(pe_data, strike_price) ==
  IF pe_data = <<>> THEN 0
  ELSE (IF Head(pe_data).strikePrice < strike_price
        THEN (strike_price - Head(pe_data).strikePrice) * Head(pe_data).PE_openInterest[1]
        ELSE 0) + PutLoss(Tail(pe_data), strike_price)

\* min(total_loss_at_strike, key=total_loss_at_strike.get): the first key, in
\* insertion (ascending) order, whose value is the least
calculate_max_pain(frame) ==
  LET strikes == SortedSeq({frame[i].strikePrice : i \in 1..Len(frame)})
      CeComplete(r) == r.CE_openInterest # NaN /\ r.CE_lastPrice # NaN
      PeComplete(r) == r.PE_openInterest # NaN /\ r.PE_lastPrice # NaN
      ce_data == SelectSeq(frame, CeComplete)
      pe_data == SelectSeq(frame, PeComplete)
      total_loss_at_strike == [k \in 1..Len(strikes) |->
                                CallLoss(ce_data, strikes[k]) + PutLoss(pe_data, strikes[k])]
  IN  IF strikes = <<>> THEN [max_pain_strike |-> None, max_loss_value |-> 0]
      ELSE LET first == CHOOSE k \in 1..Len(strikes) :
                          /\ \A j \in 1..Len(strikes) : total_loss_at_strike[k] <= total_loss_at_strike[j]
                          /\ \A j \in 1..(k - 1) : total_loss_at_strike[j] > total_loss_at_strike[k]
           IN  [max_pain_strike |-> Some(strikes[first]),
                max_loss_value |-> total_loss_at_strike[first]]

\* ------------------------------------------------------------------- state
VARIABLES
  FETCH_SYMBOLS,   \* environment: FETCH_SYMBOLS
  PROVIDER,        \* environment: PROVIDER
  health,          \* upstream behaviour per symbol of HealthKeys
  doc,             \* subscriptions.json
  proc,            \* "boot", "up", "down" (after shutdown), "killed"
  store,           \* app.state.cache.store
  subscriptions,   \* app.state.subscriptions
  pollerPc,        \* position of background_fetcher
  symbols,         \* background_fetcher: the pass's copy of the list
  idx,             \* background_fetcher: index of `s` in symbols
  now,             \* wall clock, ticks once per poller loop iteration
  snap,            \* the mapping returned by the last get_all()
  lastSet,         \* history: key -> quote of the last completed set()
  snapAt,          \* history: the store at the instant of the last get_all()
  acked,           \* history: symbols POST /subscribe has answered for
  added,           \* history: symbols POST /subscribe answered "subscribed" for
  via,             \* history: key -> adapter of the poller's last call
  passAcked,       \* history: acked at the start of the current pass
  due,             \* history: symbols acked before the start of a pass that has ended
  nse,             \* what nsepython.option_chain answers
  clock,           \* wall clock in seconds, read by datetime.now()
  serial,          \* number of option-chain requests accepted so far
  req,             \* the option-chain request each worker thread is serving
  served,          \* history: request number -> the request and its answer
  files,           \* option_chain_data: file name -> content
  analytics,       \* the last answer of GET /options/analytics
  answers,         \* market and crypto endpoints: the last fetch outcome and status
  df,              \* the DataFrame handed to calculate_pcr
  pcr,             \* what calculate_pcr returned for df, if it has been called
  arg,             \* the argument a function under study is applied to
  result,          \* what the function returned for arg, if it has been called
  dir,             \* option_chain_data as the file system has it: name -> file
  inodes,          \* the files ever created there: who writes each, how far
  writer,          \* the thread of each _atomic_write_* call in progress
  reader           \* a GET /options/analytics that reads while they write

vars == <<FETCH_SYMBOLS, PROVIDER, health, doc, proc, store, subscriptions,
          pollerPc, symbols, idx, now, snap, lastSet, snapAt, acked,
          added, via, passAcked, due, nse, clock, serial, req, served, files,
          analytics, answers, df, pcr, arg, result, dir, inodes, writer, reader>>

\* the state of the handlers of app/routes
options == <<nse, clock, serial, req, served, files, analytics>>
market == <<answers>>
frames == <<df, pcr>>
atomic == <<dir, inodes, writer, reader>>
applied == <<arg, result, atomic>>
routes == <<options, market, frames, applied>>

config == <<FETCH_SYMBOLS, PROVIDER, health>>
history == <<lastSet, snapAt, acked, added, via, passAcked, due>>

EmptyDict == [k \in {} |-> 0]
NoSnap == [ref |-> "none", copy |-> EmptyDict]

\* subscription documents found at start: none, or one left by an earlier run
DocChoices == {DocMissing, DocOk(<<sBtcLower, sINFY>>)}

\* the worker threads that run the synchronous handlers of the options router
Workers == {1, 2}

NoSel == [err |-> NoExc, strikes |-> <<>>, atm |-> 0, selected |-> <<>>, final |-> <<>>]

\* a worker with no request; `status` is the answer and `wrote` the files the
\* request has put into option_chain_data (history)
IdleReq ==
  [pc |-> "idle", id |-> 0, endpoint |-> "none", index |-> <<>>, index_name |-> <<>>, expiry_date |-> <<>>,
   num_strikes |-> 0, expiry |-> <<>>, sel |-> NoSel, base |-> <<>>, status |-> 0, wrote |-> {}]

NoAnalytics == [status |-> 0, file |-> <<>>, at |-> 0, newest |-> 0]

\* the options router before its first request, with an empty option_chain_data
OptionsIdle ==
  /\ clock = 0
  /\ serial = 0
  /\ req = [w \in Workers |-> IdleReq]
  /\ served = <<>>
  /\ files = EmptyDict
  /\ analytics = NoAnalytics

\* no market or crypto endpoint has been called
MarketIdle == answers = [e \in Endpoints |-> NotCalled]

\* no frame has been read
FramesIdle == df = EmptyFrame /\ pcr = None

\* the handlers of app/routes before their first request
\* no function is under study
IdleWriter == [pc |-> "idle", target |-> <<>>, tmp_name |-> <<>>, ino |-> 0]
IdleReader == [pc |-> "idle", path |-> <<>>, ino |-> 0, seen |-> {}]

\* an empty option_chain_data and nobody at work in it
AtomicIdle ==
  /\ dir = EmptyDict
  /\ inodes = <<>>
  /\ writer = [w \in Workers |-> IdleWriter]
  /\ reader = IdleReader

AppliedIdle == arg = <<>> /\ result = None /\ AtomicIdle

RoutesIdle == nse = NseBroken /\ OptionsIdle /\ MarketIdle /\ FramesIdle /\ AppliedIdle

\* a freshly started process: nothing in memory, no history
Boot ==
  /\ proc = "boot"
  /\ store = EmptyDict
  /\ subscriptions = <<>>
  /\ pollerPc = "none"
  /\ symbols = <<>>
  /\ idx = 0
  /\ now = 0
  /\ snap = NoSnap
  /\ lastSet = EmptyDict
  /\ snapAt = EmptyDict
  /\ acked = {}
  /\ added = {}
  /\ via = EmptyDict
  /\ passAcked = {}
  /\ due = {}

Init ==
  /\ FETCH_SYMBOLS \in EnvChoices
  /\ PROVIDER \in ProviderChoices
  /\ health \in [HealthKeys -> HealthModes]
  /\ doc \in DocChoices
  /\ Boot
  /\ RoutesIdle

\* the health of the upstream behind `adapter` for `symbol`: fixed for the
\* adapter the router selects for a symbol of HealthKeys, free otherwise
HealthOf(adapter, symbol) ==
  IF Upper(symbol) \in HealthKeys
     /\ adapter = get_provider_for_symbol(symbol, PROVIDER)
  THEN health[Upper(symbol)]
  ELSE "flaky"

\* the poller is suspended at an await, so other coroutines can run
PollerSuspended == pollerPc \in {"calling", "pause", "sleep", "crashed"}

\* uvicorn accepts requests after the lifespan startup has completed; the
\* first step of fetch_task was queued before that and has run by then
Serving == proc = "up" /\ PollerSuspended

\* ------------------------------------------------------- app/main.py startup
Startup ==
  /\ proc = "boot"
  /\ proc' = "up"
  /\ store' = EmptyDict
  /\ subscriptions' = load_subscriptions(doc)
  /\ pollerPc' = "init"
  /\ UNCHANGED <<config, routes, doc, symbols, idx, now, snap, history>>

\* ------------------------------------------- app/fetcher.py background_fetcher
\* subs = await load_subscriptions(); fallback to env; app.state.subscriptions = subs
PollerInit ==
  /\ proc = "up" /\ pollerPc = "init"
  /\ subscriptions' = InitialSubscriptions(doc, FETCH_SYMBOLS)
  /\ pollerPc' = "top"
  /\ UNCHANGED <<config, routes, doc, proc, store, symbols, idx, now, snap, history>>

\* symbols = list(app.state.subscriptions), non-empty: the first adapter call starts
PollerPassStart ==
  /\ proc = "up" /\ pollerPc = "top"
  /\ subscriptions # <<>>
  /\ symbols' = subscriptions
  /\ idx' = 1
  /\ now' = now + 1
  /\ pollerPc' = "calling"
  /\ passAcked' = acked
  /\ UNCHANGED <<config, routes, doc, proc, store, subscriptions, snap, lastSet, snapAt,
                 acked, added, via, due>>

\* if not symbols: await asyncio.sleep(FETCH_INTERVAL); continue
PollerIdle ==
  /\ proc = "up" /\ pollerPc = "top"
  /\ subscriptions = <<>>
  /\ symbols' = <<>>
  /\ idx' = 0
  /\ now' = now + 1
  /\ pollerPc' = "sleep"
  /\ UNCHANGED <<config, routes, doc, proc, store, subscriptions, snap, history>>

\* a faulty variant of AfterFetch: an exception of the adapter call is not caught
AfterFetchUncaught(outcome) == IF outcome = "raise" THEN "crashed" ELSE "pause"

\* try: ... except Exception: logger.error(...); then await asyncio.sleep(0.2)
AfterFetch(outcome) == "pause"

\* a faulty variant of PollerReturn: a call that brought no data stores an
\* empty quote
PollerReturnStoresFailure ==
  /\ proc = "up" /\ pollerPc = "calling"
  /\ LET s == symbols[idx]
         adapter == get_provider_for_symbol(s, PROVIDER)
     IN  \E outcome \in AdapterOutcomes(HealthOf(adapter, s)), price \in AdapterPrices(adapter) :
           /\ IF outcome = "ok"
              THEN /\ store' = CacheSet(store, s, AdapterQuote(adapter, s, price, now))
                   /\ lastSet' = Recorded(lastSet, Upper(s), AdapterQuote(adapter, s, price, now))
              ELSE /\ store' = CacheSet(store, s, AdapterQuote(adapter, s, 0, now))
                   /\ UNCHANGED lastSet
           /\ via' = Recorded(via, Upper(s), adapter)
           /\ pollerPc' = AfterFetch(outcome)
  /\ UNCHANGED <<config, routes, doc, proc, subscriptions, symbols, idx, now, snap,
                 snapAt, acked, added, passAcked, due>>

\* the adapter call of symbols[idx] returns (or raises); if q: await cache.set(s, q)
PollerReturn ==
  /\ proc = "up" /\ pollerPc = "calling"
  /\ LET s == symbols[idx]
         adapter == get_provider_for_symbol(s, PROVIDER)
     IN  \E outcome \in AdapterOutcomes(HealthOf(adapter, s)), price \in AdapterPrices(adapter) :
           /\ IF outcome = "ok"
              THEN /\ store' = CacheSet(store, s, AdapterQuote(adapter, s, price, now))
                   /\ lastSet' = Recorded(lastSet, Upper(s), AdapterQuote(adapter, s, price, now))
              ELSE UNCHANGED <<store, lastSet>>
           /\ via' = Recorded(via, Upper(s), adapter)
           /\ pollerPc' = AfterFetch(outcome)
  /\ UNCHANGED <<config, routes, doc, proc, subscriptions, symbols, idx, now, snap,
                 snapAt, acked, added, passAcked, due>>

\* asyncio.sleep(0.2) returns and the for loop takes the next symbol
PollerNext ==
  /\ proc = "up" /\ pollerPc = "pause"
  /\ idx < Len(symbols)
  /\ idx' = idx + 1
  /\ pollerPc' = "calling"
  /\ UNCHANGED <<config, routes, doc, proc, store, subscriptions, symbols, now, snap,
                 history>>

\* the list save_subscriptions is called with at the end of a pass
SavedList(passSymbols, current) == passSymbols

\* after the last symbol: save_subscriptions opens SUB_FILE with mode "w",
\* which truncates the file
PollerSaveOpen ==
  /\ proc = "up" /\ pollerPc = "pause"
  /\ idx = Len(symbols)
  /\ doc' = DocTorn
  /\ pollerPc' = "saving"
  /\ UNCHANGED <<config, routes, proc, store, subscriptions, symbols, idx, now, snap,
                 history>>

\* json.dump and close complete the document; await asyncio.sleep(FETCH_INTERVAL)
PollerSaveWrite ==
  /\ proc = "up" /\ pollerPc = "saving"
  /\ doc' = DocOk(SavedList(symbols, subscriptions))
  /\ pollerPc' = "sleep"
  /\ due' = due \cup passAcked
  /\ UNCHANGED <<config, routes, proc, store, subscriptions, symbols, idx, now, snap,
                 lastSet, snapAt, acked, added, via, passAcked>>

\* asyncio.sleep(FETCH_INTERVAL) returns: back to the top of `while True`
PollerWake ==
  /\ proc = "up" /\ pollerPc = "sleep"
  /\ now < MaxPasses
  /\ pollerPc' = "top"
  /\ UNCHANGED <<config, routes, doc, proc, store, subscriptions, symbols, idx, now,
                 snap, history>>

\* ------------------------------------------------------ app/main.py shutdown
\* task.cancel(); await task: CancelledError ends the poller at its await
Shutdown ==
  /\ Serving
  /\ proc' = "down"
  /\ pollerPc' = IF pollerPc = "crashed" THEN "crashed" ELSE "cancelled"
  /\ UNCHANGED <<config, routes, doc, store, subscriptions, symbols, idx, now, snap,
                 history>>

\* the process is stopped from outside (SIGKILL, power loss) at any point;
\* its memory is gone, the document stays as it is
Kill ==
  /\ proc = "up"
  /\ proc' = "killed"
  /\ store' = EmptyDict
  /\ subscriptions' = <<>>
  /\ pollerPc' = "none"
  /\ symbols' = <<>>
  /\ idx' = 0
  /\ snap' = NoSnap
  /\ lastSet' = EmptyDict
  /\ snapAt' = EmptyDict
  /\ acked' = {}
  /\ added' = {}
  /\ via' = EmptyDict
  /\ passAcked' = {}
  /\ due' = {}
  /\ UNCHANGED <<config, routes, doc, now>>

\* ----------------------------------------------------- app/main.py handlers
\* a faulty variant of SubscribeAppend: the list is replaced by the new symbol
SubscribeReplace(subs, s) == <<s>>

\* subs.append(s)
SubscribeAppend(subs, s) == Append(subs, s)

\* req.symbol.strip().upper()
NormalizeSymbol(symbol) == Upper(Strip(symbol))

\* the "detail" of the answer of POST /subscribe for the normalized symbol s
SubscribeReply(subs, s) ==
  IF InList(s, subs) THEN "already subscribed" ELSE "subscribed"

\* POST /subscribe
Subscribe(symbol) ==
  /\ Serving
  /\ LET s == NormalizeSymbol(symbol)
     IN  /\ IF SubscribeReply(subscriptions, s) = "already subscribed"
            THEN UNCHANGED <<subscriptions, added>>
            ELSE /\ subscriptions' = SubscribeAppend(subscriptions, s)
                 /\ added' = added \cup {s}
         /\ acked' = acked \cup {s}
  /\ UNCHANGED <<config, routes, doc, proc, store, pollerPc, symbols, idx, now, snap,
                 lastSet, snapAt, via, passAcked, due>>

\* the response of GET /quote/{symbol} for a given store
GetQuoteResponse(st, symbol) ==
  IF CacheGet(st, symbol) = None
  THEN [status |-> 404, detail |-> "Symbol not found in cache", body |-> None]
  ELSE [status |-> 200, detail |-> "", body |-> CacheGet(st, symbol)]

\* GET /quote/{symbol}: answers GetQuoteResponse(store, symbol), changes nothing
GetQuote(symbol) ==
  /\ Serving
  /\ GetQuoteResponse(store, symbol).status \in {200, 404}
  /\ UNCHANGED <<config, routes, doc, proc, store, subscriptions, pollerPc, symbols, idx,
                 now, snap, history>>

\* GET /quotes
GetAllQuotes ==
  /\ Serving
  /\ snap' = CacheGetAll(store)
  /\ snapAt' = store
  /\ UNCHANGED <<config, routes, doc, proc, store, subscriptions, pollerPc, symbols, idx,
                 now, lastSet, acked, added, via, passAcked, due>>

\* provider_module = PROVIDER_MAP.get(PROVIDER, yfinance_provider): the adapter
\* of GET /fetch/{symbol} and GET /historical/{symbol}, whatever the symbol
provider_module(provider) == PROVIDER_MAP(provider)

\* GET /fetch/{symbol}: the quote on success, 404 when the adapter returns
\* None, 500 when it raises; only a success writes the cache
FetchQuote(symbol) ==
  /\ Serving
  /\ LET adapter == provider_module(PROVIDER)
     IN  \E outcome \in AdapterOutcomes(HealthOf(adapter, symbol)), price \in AdapterPrices(adapter) :
           IF outcome = "ok"
           THEN /\ store' = CacheSet(store, symbol, AdapterQuote(adapter, symbol, price, now))
                /\ lastSet' = Recorded(lastSet, Upper(symbol), AdapterQuote(adapter, symbol, price, now))
           ELSE UNCHANGED <<store, lastSet>>
  /\ UNCHANGED <<config, routes, doc, proc, subscriptions, pollerPc, symbols, idx, now, snap,
                 snapAt, acked, added, via, passAcked, due>>

Next ==
  \/ Startup
  \/ PollerInit
  \/ PollerPassStart
  \/ PollerIdle
  \/ PollerReturn
  \/ PollerNext
  \/ PollerSaveOpen
  \/ PollerSaveWrite
  \/ PollerWake
  \/ Shutdown
  \/ Kill
  \/ \E symbol \in SubscribeInputs : Subscribe(symbol)
  \/ \E symbol \in PathInputs : GetQuote(symbol)
  \/ \E symbol \in PathInputs : FetchQuote(symbol)

Spec == Init /\ [][Next]_vars

\* the same machine with GET /quotes, whose returned mapping is kept in snap
NextCache == Next \/ GetAllQuotes

\* one configuration is enough for the cache: no document and an empty
\* FETCH_SYMBOLS, so that every polled symbol comes from POST /subscribe
InitCache == Init /\ doc = DocMissing /\ FETCH_SYMBOLS = EnvSet(EnvEmpty)

SpecCache == InitCache /\ [][NextCache]_vars

\* the deployment with PROVIDER=finnhub: no document, an empty FETCH_SYMBOLS
InitFinnhub ==
  /\ FETCH_SYMBOLS = EnvSet(EnvEmpty)
  /\ PROVIDER = "FINNHUB"
  /\ health \in [HealthKeys -> HealthModes]
  /\ doc = DocMissing
  /\ Boot
  /\ RoutesIdle

SpecFinnhub == InitFinnhub /\ [][Next]_vars

\* ------------------------------------- app/routes/options.py: the handlers
\* the polling engine, which the options router never touches
engine == <<FETCH_SYMBOLS, PROVIDER, health, doc, proc, store, subscriptions,
            pollerPc, symbols, idx, now, snap, lastSet, snapAt, acked,
            added, via, passAcked, due>>

\* the first exception raised by a chain of computations
FirstErr(errs) ==
  IF \E i \in 1..Len(errs) : errs[i] # NoExc
  THEN errs[CHOOSE i \in 1..Len(errs) : errs[i] # NoExc /\ \A j \in 1..(i - 1) : errs[j] = NoExc]
  ELSE NoExc

\* the record of a request that has been answered with `status`
Answer(r, status) ==
  [r EXCEPT !.pc = "done", !.status = status, !.sel = NoSel, !.base = <<>>]

\* the handler up to base_filename: option_chain(idx), the choice of the
\* expiry, _prepare_option_chain_df, and _select_strikes_and_save lines 134-149
OptionsAccept(w, endpoint, index, expiry_date, num_strikes) ==
  /\ req[w].pc = "idle"
  /\ \A v \in Workers : v < w => req[v].pc # "idle"
  /\ serial < MaxRequests
  /\ serial' = serial + 1
  /\ LET index_name == normalize_index_name(index)
         ch   == ChooseExpiry(endpoint, nse, expiry_date)
         prep == IF ch.err = NoExc THEN prepare_option_chain_df(nse, ch.expiry)
                 ELSE [err |-> NoExc, df |-> <<>>]
         sel  == IF ch.err = NoExc /\ prep.err = NoExc
                 THEN select_strikes(prep.df, nse, num_strikes) ELSE NoSel
         err  == FirstErr(<<ch.err, prep.err, sel.err>>)
         r    == [IdleReq EXCEPT !.id = serial + 1, !.endpoint = endpoint,
                                 !.index = index, !.index_name = index_name, !.expiry_date = expiry_date,
                                 !.num_strikes = num_strikes]
     IN  IF err # NoExc
         THEN /\ served' = Append(served, Answer(r, ApiStatus(err)))
              /\ UNCHANGED req
         ELSE /\ req' = [req EXCEPT ![w] =
                          [r EXCEPT !.pc = "named", !.expiry = ch.expiry, !.sel = sel,
                                    !.base = base_filename(index_name, ch.expiry, clock)]]
              /\ served' = Append(served, r)
  /\ UNCHANGED <<engine, market, frames, applied, nse, clock, files, analytics>>

\* POST /options/fetch
ApiFetchOptions(w, index, num_strikes) ==
  OptionsAccept(w, "fetch", index, <<>>, num_strikes)

\* POST /options/fetch/expiry
ApiFetchOptionsExpiry(w, index, expiry_date, num_strikes) ==
  OptionsAccept(w, "expiry", index, expiry_date, num_strikes)

\* _atomic_write_csv(df_final, csv_path): os.replace puts the file in place,
\* over whatever is at csv_path
WriteCsv(w) ==
  /\ req[w].pc = "named"
  /\ LET csv_path == req[w].base \o DotCsv
     IN  /\ files' = Recorded(files, csv_path, CsvFile(req[w].id, clock, req[w].sel.final))
         /\ req' = [req EXCEPT ![w].pc = "csv", ![w].wrote = @ \cup {csv_path}]
         /\ served' = [served EXCEPT ![req[w].id] = req'[w]]
  /\ UNCHANGED <<engine, market, frames, applied, nse, clock, serial, analytics>>

\* the metadata dict, _atomic_write_json(metadata, meta_path) and the answer
WriteMeta(w) ==
  /\ req[w].pc = "csv"
  /\ LET meta_path == req[w].base \o DotJson
         md == Metadata(req[w].index_name, req[w].expiry, nse, req[w].sel, clock)
     IN  /\ req' = [req EXCEPT ![w] = IdleReq]
         /\ IF md.err # NoExc
            THEN /\ served' = [served EXCEPT ![req[w].id] = Answer(req[w], ApiStatus(md.err))]
                 /\ UNCHANGED files
            ELSE /\ files' = Recorded(files, meta_path, JsonFile(req[w].id, clock, md.meta))
                 /\ served' = [served EXCEPT ![req[w].id] =
                                 Answer([req[w] EXCEPT !.wrote = @ \cup {meta_path}], 201)]
  /\ UNCHANGED <<engine, market, frames, applied, nse, clock, serial, analytics>>

\* a second passes
Tick ==
  /\ clock < MaxClock
  /\ clock' = clock + 1
  /\ UNCHANGED <<engine, market, frames, applied, nse, serial, req, served, files, analytics>>

\* GET /options/analytics: the CSV that sorts last among the index's names;
\* FetchResultMeta(**meta_obj) needs the indexName of the JSON next to it
ApiAnalyticsForLatest(index) ==
  /\ LET index_name == normalize_index_name(index)
         names == {f \in DOMAIN files : StartsWith(f, Lower(index_name) \o <<"_">>) /\ EndsWith(f, DotCsv)}
     IN  IF names = {}
         THEN analytics' = [NoAnalytics EXCEPT !.status = 404]
         ELSE LET latest_file == LastInOrder(names)
                  meta_file == SubSeq(latest_file, 1, Len(latest_file) - Len(DotCsv)) \o DotJson
              IN  analytics' =
                    [status |-> IF meta_file \in DOMAIN files THEN 200 ELSE 500,
                     file   |-> latest_file,
                     at     |-> files[latest_file].at,
                     newest |-> CHOOSE t \in {files[f].at : f \in names} :
                                  \A f \in names : files[f].at <= t]
  /\ UNCHANGED <<engine, market, frames, applied, nse, clock, serial, req, served, files>>

NextOptions ==
  \/ \E w \in Workers, index \in IndexInputs, num_strikes \in NumStrikesInputs :
       ApiFetchOptions(w, index, num_strikes)
  \/ \E w \in Workers, index \in IndexInputs, expiry_date \in ExpiryInputs,
        num_strikes \in NumStrikesInputs :
       ApiFetchOptionsExpiry(w, index, expiry_date, num_strikes)
  \/ \E w \in Workers : WriteCsv(w)
  \/ \E w \in Workers : WriteMeta(w)
  \/ Tick
  \/ \E index \in IndexInputs : ApiAnalyticsForLatest(index)

\* the engine as it is before startup
EngineOff ==
  /\ FETCH_SYMBOLS = EnvSet(EnvEmpty)
  /\ PROVIDER = "YFINANCE"
  /\ health = [k \in HealthKeys |-> "ok"]
  /\ doc = DocMissing
  /\ Boot

\* the options router alone, with each of the upstream answers
InitOptions ==
  /\ EngineOff
  /\ nse \in NseChoices
  /\ OptionsIdle /\ MarketIdle /\ FramesIdle /\ AppliedIdle

SpecOptions == InitOptions /\ [][NextOptions]_vars

\* ---------------------------- app/routes/market.py, app/main.py: handlers
notMarket == <<engine, options, frames, applied>>

GetIndexPrice(outcome) ==
  /\ answers' = [answers EXCEPT !["get_index_price"] = Reply(outcome, get_index_price(outcome))]
  /\ UNCHANGED notMarket

GetIndexPriceQuery(index, outcome) ==
  /\ LET status == get_index_price_query(index, outcome)
     IN  answers' = [answers EXCEPT !["get_index_price_query"] =
                       Reply(IF status = 400 THEN "invalid" ELSE outcome, status)]
  /\ UNCHANGED notMarket

GetStockPrice(outcome) ==
  /\ answers' = [answers EXCEPT !["get_stock_price"] = Reply(outcome, get_stock_price(outcome))]
  /\ UNCHANGED notMarket

GetStockPriceQuery(symbol, first, second) ==
  /\ LET status == get_stock_price_query(symbol, first, second)
     IN  answers' = [answers EXCEPT !["get_stock_price_query"] =
                       Reply(IF status = 400 THEN "invalid"
                                ELSE StockQueryData(symbol[1], first, second), status)]
  /\ UNCHANGED notMarket

GetCryptoPrice(outcome) ==
  /\ answers' = [answers EXCEPT !["get_crypto_price"] = Reply(outcome, get_crypto_price(outcome))]
  /\ UNCHANGED notMarket

GetCryptoHistorical(outcome) ==
  /\ answers' = [answers EXCEPT !["get_crypto_historical"] =
                   Reply(outcome, get_crypto_historical(outcome))]
  /\ UNCHANGED notMarket

GetCryptoStats(outcome) ==
  /\ answers' = [answers EXCEPT !["get_crypto_stats"] = Reply(outcome, get_crypto_stats(outcome))]
  /\ UNCHANGED notMarket

NextMarket ==
  \/ \E outcome \in FetchOutcomes : GetIndexPrice(outcome)
  \/ \E index \in IndexQueryInputs, outcome \in FetchOutcomes : GetIndexPriceQuery(index, outcome)
  \/ \E outcome \in FetchOutcomes : GetStockPrice(outcome)
  \/ \E symbol \in StockQueryInputs, first \in FetchOutcomes, second \in FetchOutcomes :
       GetStockPriceQuery(symbol, first, second)
  \/ \E outcome \in FetchOutcomes : GetCryptoPrice(outcome)
  \/ \E outcome \in FetchOutcomes : GetCryptoHistorical(outcome)
  \/ \E outcome \in FetchOutcomes : GetCryptoStats(outcome)

InitMarket == EngineOff /\ RoutesIdle

SpecMarket == InitMarket /\ [][NextMarket]_vars

\* --------------------------------------------------- calculate_pcr applied
\* pcr = calculate_pcr(df)
CalculatePcr ==
  /\ pcr = None
  /\ pcr' = Some(calculate_pcr(df))
  /\ UNCHANGED <<engine, options, market, applied, df>>

NextFrames == CalculatePcr

\* every frame of up to MaxRows rows
InitFrames ==
  /\ EngineOff
  /\ nse = NseBroken
  /\ OptionsIdle /\ MarketIdle /\ AppliedIdle
  /\ df \in UNION {Frames(n) : n \in 0..MaxRows}
  /\ pcr = None

SpecFrames == InitFrames /\ [][NextFrames]_vars

\* ------------------------------------------- get_provider_for_symbol, applied
\* symbols handed to the router: crypto tokens alone, with an exchange suffix,
\* inside a currency pair, in lower case, and symbols without any token
sETHNS == <<"E","T","H",".","N","S">>
sLINKNS == <<"L","I","N","K",".","N","S">>
sUSDTRY == <<"U","S","D","T","R","Y">>
sSOLUSD == <<"S","O","L","U","S","D">>
sDogeLower == <<"d","o","g","e","u","s","d","t">>
sAAPL == <<"A","A","P","L">>
sEURUSD == <<"E","U","R","U","S","D">>
sEurLower == <<"e","u","r","u","s","d">>
sTCSNS == <<"T","C","S",".","N","S">>
sNSEI == <<"^","N","S","E","I">>
sMSFT == <<"M","S","F","T">>
sGBPJPY == <<"G","B","P","J","P","Y">>
RouterSymbols ==
  {sBTCUSDT, sBtcLower, sINFY, sETHNS, sLINKNS, sUSDTRY, sSOLUSD, sDogeLower,
   sAAPL, sEURUSD, sEurLower, sTCSNS, sNSEI, sMSFT, sGBPJPY}

\* os.getenv("PROVIDER", "YFINANCE").upper(): the three known names and one
\* that PROVIDER_MAP does not hold
RouterProviders == {"YFINANCE", "FINNHUB", "ALPHAVANTAGE", "POLYGON"}

RouterArgs == RouterSymbols \X RouterProviders

\* get_provider_for_symbol(symbol) is called with PROVIDER as configured
RouteSymbol ==
  /\ arg \in RouterArgs /\ result = None
  /\ result' = Some(get_provider_for_symbol(arg[1], arg[2]))
  /\ UNCHANGED <<engine, options, market, frames, atomic, arg>>

NextRouter == RouteSymbol

InitRouter ==
  /\ EngineOff /\ nse = NseBroken /\ OptionsIdle /\ MarketIdle /\ FramesIdle
  /\ AtomicIdle
  /\ arg \in RouterArgs /\ result = None

SpecRouter == InitRouter /\ [][NextRouter]_vars

\* ------------------------------- flattening and strike selection, applied
ChainStrikes == {100, 200, 300}
ChainUnderlyings == {50, 190, 200, 350}
ChainNumStrikes == {0, 1}

\* upstream chains: up to MaxChainRows rows of different strikes in any order
ChainData ==
  UNION {{[i \in 1..n |-> ChainRow(ks[i], kinds[i])] :
            ks \in {f \in [1..n -> ChainStrikes] : \A i, j \in 1..n : i # j => f[i] # f[j]},
            kinds \in [1..n -> RowKinds]} : n \in 1..MaxChainRows}

NseOf(chain) == [valid |-> TRUE, data |-> chain.data, underlyingValue |-> chain.underlyingValue]

\* df_processed = _prepare_option_chain_df(resp, nearest_expiry)
PrepareFrame ==
  /\ result = None
  /\ LET p == prepare_option_chain_df(NseOf(arg), arg.expiry)
         q == df_processed(arg.data, p.df)
     IN  result' = Some([stage |-> "flat", err |-> IF p.err # NoExc THEN p.err ELSE q.err,
                         df |-> IF p.err # NoExc THEN <<>> ELSE q.df, sel |-> NoSel])
  /\ UNCHANGED <<engine, options, market, frames, atomic, arg>>

\* _select_strikes_and_save(df_processed, resp, ...) up to df_final
SelectStrikes ==
  /\ result # None
  /\ result[1].stage = "flat" /\ result[1].err = NoExc
  /\ result' = Some([result[1] EXCEPT
                       !.stage = "selected",
                       !.sel = select_strikes(result[1].df, NseOf(arg), arg.num_strikes)])
  /\ UNCHANGED <<engine, options, market, frames, atomic, arg>>

NextChain == PrepareFrame \/ SelectStrikes

InitChain ==
  /\ EngineOff /\ nse = NseBroken /\ OptionsIdle /\ MarketIdle /\ FramesIdle
  /\ AtomicIdle
  /\ arg \in [data : ChainData, underlyingValue : ChainUnderlyings,
               num_strikes : ChainNumStrikes, expiry : {Sep30}]
  /\ result = None

SpecChain == InitChain /\ [][NextChain]_vars

\* --------------------------------------------- calculate_max_pain, applied
PainStrikes == {100, 200, 300}
PainRows(strike) ==
  {PainRow(strike, ce_oi, ce_last, pe_oi, pe_last) :
     ce_oi \in {NaN, Some(1), Some(3)}, ce_last \in {NaN, Some(5)},
     pe_oi \in {NaN, Some(2)}, pe_last \in {NaN, Some(5)}}

\* flattened chains of up to MaxPainRows strikes, in ascending strike order as
\* the snapshot stores them
PainFrames ==
  UNION {{f \in [1..n -> UNION {PainRows(k) : k \in PainStrikes}] :
            \A i \in 1..(n - 1) : f[i].strikePrice < f[i + 1].strikePrice} : n \in 0..MaxPainRows}

CalculateMaxPain ==
  /\ result = None
  /\ result' = Some(calculate_max_pain(arg))
  /\ UNCHANGED <<engine, options, market, frames, atomic, arg>>

NextPain == CalculateMaxPain

InitPain ==
  /\ EngineOff /\ nse = NseBroken /\ OptionsIdle /\ MarketIdle /\ FramesIdle
  /\ AtomicIdle
  /\ arg \in PainFrames
  /\ result = None

SpecPain == InitPain /\ [][NextPain]_vars

\* ------------------- app/routes/options.py _atomic_write_csv, _atomic_write_json
\* the final paths written to: the CSV and the JSON of one snapshot
SnapshotBase == base_filename(<<"N","I","F","T","Y">>, Sep30, 0)
AtomicTargets == {SnapshotBase \o DotCsv, SnapshotBase \o DotJson}

\* the suffix handed to NamedTemporaryFile
SuffixOf(target) == IF EndsWith(target, DotCsv) THEN DotCsv ELSE DotJson

\* tempfile's name: "tmp", characters no other live temporary file has, the suffix
TmpName(ino, suffix) == <<"t","m","p">> \o TwoDigits(ino) \o suffix

\* a faulty variant of OpenTemp: the target itself is opened for writing
OpenInPlace(w, target) ==
  /\ writer[w].pc = "idle"
  /\ Len(inodes) < MaxWrites
  /\ LET ino == Len(inodes) + 1
     IN  /\ inodes' = Append(inodes, [by |-> w, written |-> 0])
         /\ dir' = Recorded(dir, target, ino)
         /\ writer' = [writer EXCEPT ![w] = [pc |-> "writing", target |-> target,
                                             tmp_name |-> target, ino |-> ino]]
  /\ UNCHANGED <<engine, options, market, frames, arg, result, reader>>

\* with tempfile.NamedTemporaryFile(mode="w", dir=dirpath, delete=False, suffix=...):
\* a new, empty file under a new name in the directory of the target
OpenTemp(w, target) ==
  /\ writer[w].pc = "idle"
  /\ Len(inodes) < MaxWrites
  /\ LET ino == Len(inodes) + 1
         tmp_name == TmpName(ino, SuffixOf(target))
     IN  /\ inodes' = Append(inodes, [by |-> w, written |-> 0])
         /\ dir' = Recorded(dir, tmp_name, ino)
         /\ writer' = [writer EXCEPT ![w] = [pc |-> "writing", target |-> target,
                                             tmp_name |-> tmp_name, ino |-> ino]]
  /\ UNCHANGED <<engine, options, market, frames, arg, result, reader>>

\* df.to_csv(tmp_name, index=False) / json.dump(obj, tmp): one more buffer of
\* the content reaches the file
WriteChunk(w) ==
  /\ writer[w].pc = "writing"
  /\ inodes[writer[w].ino].written < Chunks
  /\ inodes' = [inodes EXCEPT ![writer[w].ino].written = @ + 1]
  /\ UNCHANGED <<engine, options, market, frames, arg, result, dir, writer, reader>>

\* the with block is left (the file is closed) and os.replace(tmp_name,
\* target_path) gives the file its final name, over whatever has that name
Replace(w) ==
  /\ writer[w].pc = "writing"
  /\ inodes[writer[w].ino].written = Chunks
  /\ dir' = [n \in ((DOMAIN dir) \ {writer[w].tmp_name}) \cup {writer[w].target} |->
               IF n = writer[w].target THEN writer[w].ino ELSE dir[n]]
  /\ writer' = [writer EXCEPT ![w] = IdleWriter]
  /\ UNCHANGED <<engine, options, market, frames, arg, result, inodes, reader>>

\* api_analytics_for_latest, lines 476-481: the CSV names of the index, the
\* last of them in order
ReaderList ==
  /\ reader.pc = "idle"
  /\ LET csv_files == {f \in DOMAIN dir : StartsWith(f, <<"n","i","f","t","y","_">>) /\ EndsWith(f, DotCsv)}
     IN  /\ csv_files # {}
         /\ reader' = [reader EXCEPT !.pc = "listed", !.path = LastInOrder(csv_files)]
  /\ UNCHANGED <<engine, options, market, frames, arg, result, dir, inodes, writer>>

\* pd.read_csv(csv_path) / open(meta_file): the file that has the name now
ReaderOpen ==
  /\ reader.pc = "listed"
  /\ reader' = [reader EXCEPT !.pc = "open", !.ino = dir[reader.path]]
  /\ UNCHANGED <<engine, options, market, frames, arg, result, dir, inodes, writer>>

\* the open file is read to its end; after the CSV the JSON next to it is
\* read when os.path.exists(meta_file)
ReaderRead ==
  /\ reader.pc = "open"
  /\ LET got == [path |-> reader.path, by |-> inodes[reader.ino].by,
                 read |-> inodes[reader.ino].written]
         meta_file == SubSeq(reader.path, 1, Len(reader.path) - Len(DotCsv)) \o DotJson
     IN  reader' = IF EndsWith(reader.path, DotCsv) /\ meta_file \in DOMAIN dir
                   THEN [pc |-> "listed", path |-> meta_file, ino |-> 0,
                         seen |-> reader.seen \cup {got}]
                   ELSE [IdleReader EXCEPT !.seen = reader.seen \cup {got}]
  /\ UNCHANGED <<engine, options, market, frames, arg, result, dir, inodes, writer>>

NextAtomic ==
  \/ \E w \in Workers, target \in AtomicTargets : OpenTemp(w, target)
  \/ \E w \in Workers : WriteChunk(w)
  \/ \E w \in Workers : Replace(w)
  \/ ReaderList
  \/ ReaderOpen
  \/ ReaderRead

InitAtomic ==
  /\ EngineOff /\ nse = NseBroken /\ OptionsIdle /\ MarketIdle /\ FramesIdle
  /\ arg = <<>> /\ result = None
  /\ AtomicIdle

SpecAtomic == InitAtomic /\ [][NextAtomic]_vars

\* ------------------------------------ app/routes/analytics.py: handlers
\* the index as callers write it: an alias, the plain name in lower case, an
\* alias of another index
sNIFTY50 == <<"N","I","F","T","Y","5","0">>
sNiftyLower == <<"n","i","f","t","y">>
sNSEBANK == <<"N","S","E","B","A","N","K">>
AliasInputs == {sNIFTY50, sNiftyLower, sNSEBANK}
ExpiryQueries == {None, Some(Sep30Short)}

\* the answer of an endpoint that only needs the CSV
CsvAnswer(endpoint, index, expiry) ==
  LET found == latest_csv(files, index, expiry)
  IN  [endpoint |-> endpoint, index |-> index,
       status |-> IF found.err # NoExc THEN found.err.status ELSE 200,
       file |-> found.file]

\* GET /analytics/pcr
GetPcr(index, expiry) ==
  /\ result' = Some(CsvAnswer("pcr", index, expiry))
  /\ UNCHANGED <<engine, options, market, frames, atomic, arg>>

\* GET /analytics/max-pain
GetMaxPain(index, expiry) ==
  /\ result' = Some(CsvAnswer("max-pain", index, expiry))
  /\ UNCHANGED <<engine, options, market, frames, atomic, arg>>

\* GET /analytics/top-oi
GetTopOi(index, expiry) ==
  /\ result' = Some(CsvAnswer("top-oi", index, expiry))
  /\ UNCHANGED <<engine, options, market, frames, atomic, arg>>

\* GET /analytics/summary: FetchResultMeta(**meta_obj) needs the JSON next to
\* the CSV
GetAnalyticsSummary(index, expiry) ==
  /\ LET found == latest_csv(files, index, expiry)
         meta_file == SubSeq(found.file, 1, Len(found.file) - Len(DotCsv)) \o DotJson
     IN  result' = Some([endpoint |-> "summary", index |-> index,
                         status |-> IF found.err # NoExc THEN found.err.status
                                    ELSE IF meta_file \in DOMAIN files THEN 200 ELSE 500,
                         file |-> found.file])
  /\ UNCHANGED <<engine, options, market, frames, atomic, arg>>

NextIndex ==
  \/ \E w \in Workers, index \in AliasInputs : ApiFetchOptions(w, index, 0)
  \/ \E w \in Workers : WriteCsv(w)
  \/ \E w \in Workers : WriteMeta(w)
  \/ \E index \in AliasInputs : ApiAnalyticsForLatest(index)
  \/ \E index \in AliasInputs, expiry \in ExpiryQueries : GetPcr(index, expiry)
  \/ \E index \in AliasInputs, expiry \in ExpiryQueries : GetMaxPain(index, expiry)
  \/ \E index \in AliasInputs, expiry \in ExpiryQueries : GetTopOi(index, expiry)
  \/ \E index \in AliasInputs, expiry \in ExpiryQueries : GetAnalyticsSummary(index, expiry)

InitIndex ==
  /\ EngineOff
  /\ nse = NseTwoExpiries
  /\ OptionsIdle /\ MarketIdle /\ FramesIdle /\ AppliedIdle

SpecIndex == InitIndex /\ [][NextIndex]_vars

\* ------------------------------------------------------------------ claims
\* symbols a client may ask the cache for
QuerySymbols == PathInputs \cup SubscribeInputs

\* the upstream the router selects for s always answers
AlwaysOk(s) == HealthOf(get_provider_for_symbol(s, PROVIDER), s) = "ok"

\* the upstream the router selects for s never answers
AlwaysFails(s) == HealthOf(get_provider_for_symbol(s, PROVIDER), s) = "fail"

\* the number of entries of lst that equal s after upper-casing
CountIgnoringCase(lst, s) == Cardinality({i \in 1..Len(lst) : Upper(lst[i]) = s})

\* C1: once set(s, q) has completed, every get(s') with s'.upper() == s.upper()
\* returns the quote of the last completed set for that key, never None.
C1_SetThenGet ==
  \A q \in QuerySymbols :
    Upper(q) \in DOMAIN lastSet => CacheGet(store, q) = Some(lastSet[Upper(q)])

\* C1 witness: a quote set under one spelling has been replaced by a later set
\* and is read back under the lower-case spelling.
C1_Witness ==
  /\ sBTCUSDT \in DOMAIN lastSet
  /\ lastSet[sBTCUSDT].timestamp > 1
  /\ CacheGet(store, sBtcLower) = Some(lastSet[sBTCUSDT])

\* C2: the mapping get_all() returned equals the store at the instant of the
\* call, also after later set() calls have changed the store.
C2_SnapshotStable ==
  snap.ref # "none" => Deref(snap, store) = snapAt

\* C2 witness: after get_all() returned, set() calls added a key and replaced a
\* quote of a key the returned mapping holds.
C2_Witness ==
  /\ snap.ref # "none"
  /\ DOMAIN store # DOMAIN snapAt
  /\ \E k \in DOMAIN snapAt : store[k] # snapAt[k]

\* C3: a failing adapter call never ends the poller, and when a pass has gone
\* through its list, every symbol whose upstream always answers has a quote
\* fetched during this pass in the cache.
C3_PollerIsolation ==
  /\ pollerPc # "crashed"
  /\ pollerPc \in {"saving", "sleep"} =>
       \A i \in 1..Len(symbols) :
         AlwaysOk(symbols[i]) =>
           /\ CacheGet(store, symbols[i]) # None
           /\ CacheGet(store, symbols[i])[1].timestamp = now

\* C3 witness: the second pass has ended with a symbol that always fails
\* listed before one that always answers; the latter's quote is fresh.
C3_Witness ==
  /\ pollerPc = "sleep"
  /\ now = 2
  /\ \E i, j \in 1..Len(symbols) :
       /\ i < j
       /\ AlwaysFails(symbols[i])
       /\ AlwaysOk(symbols[j])
       /\ CacheGet(store, symbols[j]) # None
       /\ CacheGet(store, symbols[j])[1].timestamp = now

\* C4: when a pass that started after POST /subscribe answered for BTCUSDT has
\* ended and the crypto upstream answers, the poller has fetched BTCUSDT through
\* the Binance adapter and GET /quote/BTCUSDT answers 200 with symbol BTCUSDT.
C4_CryptoServed ==
  (sBTCUSDT \in due /\ AlwaysOk(sBTCUSDT)) =>
     /\ sBTCUSDT \in DOMAIN via
     /\ via[sBTCUSDT] = "BINANCE"
     /\ GetQuoteResponse(store, sBTCUSDT).status = 200
     /\ GetQuoteResponse(store, sBTCUSDT).body[1].symbol = sBTCUSDT

\* C4 witness: BTCUSDT was added by POST /subscribe, a later pass has ended,
\* and the quote is served.
C4_Witness ==
  /\ sBTCUSDT \in added
  /\ sBTCUSDT \in due
  /\ AlwaysOk(sBTCUSDT)
  /\ GetQuoteResponse(store, sBTCUSDT).status = 200

\* C5: after POST /subscribe has answered for a symbol, the list holds exactly
\* one entry for it (comparing after upper-casing), and that entry is the
\* upper-case symbol.
C5_SingleEntry ==
  \A s \in acked :
    /\ InList(s, subscriptions)
    /\ CountIgnoringCase(subscriptions, s) = 1

\* C6: a symbol POST /subscribe has answered for stays in
\* app.state.subscriptions.
C6_NeverRemoved ==
  acked \subseteq Range(subscriptions)

\* C6 witness: two symbols were added by POST /subscribe, passes have run and
\* the shutdown handler has completed.
C6_Witness ==
  /\ proc = "down"
  /\ Cardinality(added) = 2
  /\ due # {}

\* C7: the save at the end of a pass writes the list as it is at that moment.
C7_SaveWritesCurrentList ==
  [][(pollerPc = "saving" /\ pollerPc' = "sleep") =>
        (doc'.state = "ok" /\ doc'.symbols = subscriptions')]_vars

\* C8: after the shutdown handler has completed, every symbol POST /subscribe
\* answered "subscribed" for is in subscriptions.json.
C8_NothingLostOnShutdown ==
  proc = "down" =>
    \A s \in added : doc.state = "ok" /\ InList(s, doc.symbols)

\* C9: subscriptions.json is at every instant a complete document (or absent),
\* whoever reads it and whenever the process stops.
C9_DocumentNeverTorn ==
  doc.state # "torn"

\* C10: no two entries of the subscription list are equal after upper-casing.
C10_NoDuplicates ==
  \A i, j \in 1..Len(subscriptions) :
    i # j => Upper(subscriptions[i]) # Upper(subscriptions[j])

\* C11: every GET /fetch/{symbol} calls the adapter that the symbol router
\* (get_provider_for_symbol) selects for that symbol, and a successful one
\* leaves its quote in the cache under the upper-cased symbol.
C11_FetchUsesRouter ==
  [][\A symbol \in PathInputs :
       FetchQuote(symbol) =>
         /\ provider_module(PROVIDER) = get_provider_for_symbol(symbol, PROVIDER)
         /\ store' # store => Upper(symbol) \in DOMAIN store']_vars

\* C12: every key of the cache is the upper-cased form of a symbol of the
\* subscription list, so the cache never has more entries than the list.
C12_CacheWithinSubscriptions ==
  /\ \A k \in DOMAIN store : \E i \in 1..Len(subscriptions) : Upper(subscriptions[i]) = k
  /\ Cardinality(DOMAIN store) <= Len(subscriptions)

\* C13: every quote in the cache has a price above zero.
C13_CachedPricePositive == \A k \in DOMAIN store : store[k].price > 0

\* requests that POST /options/fetch or POST /options/fetch/expiry has answered
Answered == {i \in 1..Len(served) : served[i].pc = "done"}

\* the CSV and the JSON of one base name
IsSnapshotPair(names) ==
  \E f \in names, g \in names :
    /\ names = {f, g}
    /\ EndsWith(f, DotCsv) /\ EndsWith(g, DotJson)
    /\ SubSeq(f, 1, Len(f) - Len(DotCsv)) = SubSeq(g, 1, Len(g) - Len(DotJson))

\* C14: a fetch request that ends in an error has added no file to
\* option_chain_data; one that succeeds has added exactly one CSV and the JSON
\* of the same base name.
C14_NoPartialSnapshot ==
  \A i \in Answered :
    IF served[i].status = 201 THEN IsSnapshotPair(served[i].wrote)
    ELSE served[i].wrote = {}

\* C15: a snapshot file that exists at its final path is never replaced, and
\* every JSON lies next to the CSV that the same request wrote.
C15_SnapshotsImmutable ==
  [][/\ \A f \in DOMAIN files : f \in DOMAIN files' /\ files'[f] = files[f]
     /\ \A g \in DOMAIN files' :
          EndsWith(g, DotJson) =>
            LET f == SubSeq(g, 1, Len(g) - Len(DotJson)) \o DotCsv
            IN  f \in DOMAIN files' /\ files'[f].by = files'[g].by]_vars

\* C16: the CSV that GET /options/analytics selects is the one of the index
\* with the latest creation time.
C16_AnalyticsUsesNewest ==
  analytics.status \in {200, 500} => analytics.at = analytics.newest

\* C17: POST /options/fetch/expiry with an expiry that is not in upstream's
\* expiryDates is answered 404 and writes nothing.
C17_AbsentExpiryIs404 ==
  \A i \in Answered :
    (/\ served[i].endpoint = "expiry"
     /\ nse.valid
     /\ ~InList(served[i].expiry_date, nse.expiryDates))
    => served[i].status = 404 /\ served[i].wrote = {}

\* C18: for an expiry E that upstream offers, the request with E and the
\* request with the DDMMYY form of E select the same expiry and get the same
\* answer.
C18_BothExpiryForms ==
  \A i \in Answered, j \in Answered :
    (/\ served[i].endpoint = "expiry" /\ served[j].endpoint = "expiry"
     /\ served[i].num_strikes = served[j].num_strikes
     /\ nse.valid /\ InList(served[i].expiry_date, nse.expiryDates)
     /\ served[j].expiry_date # served[i].expiry_date
     /\ convert_expiry_format(served[j].expiry_date).value = served[i].expiry_date)
    => /\ served[j].status = served[i].status
       /\ served[j].expiry = served[i].expiry

\* C19: an endpoint whose fetch found nothing answers 404, never 500: the
\* path and query variants of the index-price and stock-price endpoints and
\* GET /crypto, /crypto-historical and /crypto-stats.
C19_NotFoundIs404 ==
  \A e \in Endpoints : answers[e].outcome = "error" => answers[e].status = 404

\* the value of a cell and the total of a column, missing ones counted as zero
CellValue(c) == IF c = NaN THEN 0 ELSE c[1]
ColumnTotal(col) ==
  IF col = None THEN 0 ELSE SeriesSum([i \in 1..Len(col[1]) |-> CellValue(col[1][i])])

\* the ratio the put-call ratio is specified to be
PcrExpected(pe, ce) ==
  IF ce = None \/ ColumnTotal(ce) = 0 THEN Float(0)
  ELSE Float(Round2(ColumnTotal(pe), ColumnTotal(ce)))

\* C20: calculate_pcr returns two finite numbers: each ratio is 0.0 when its
\* CE column is absent or sums to zero, and otherwise sum(PE) / sum(CE)
\* rounded to two decimals, missing cells and columns counted as zero.
C20_PcrIsTotal ==
  pcr # None =>
    /\ pcr[1].pcr_by_oi = PcrExpected(df.PE_openInterest, df.CE_openInterest)
    /\ pcr[1].pcr_by_volume = PcrExpected(df.PE_totalTradedVolume, df.CE_totalTradedVolume)

\* calculate_pcr has rounded 1/8 = 0.125 to 0.12 for a frame with a missing
\* PE cell and a missing volume column
C20_Witness ==
  /\ pcr # None
  /\ df.PE_openInterest # None /\ \E i \in 1..Len(df.PE_openInterest[1]) : df.PE_openInterest[1][i] = NaN
  /\ df.CE_totalTradedVolume = None /\ df.PE_totalTradedVolume # None
  /\ pcr[1].pcr_by_oi = Float(12)
  /\ pcr[1].pcr_by_volume = Float(0)
\* C22: the adapter chosen for a symbol depends on the symbol and the configured
\* default only: the crypto adapter exactly when the upper-cased symbol contains
\* a crypto token, otherwise the configured equities adapter (yfinance when the
\* configured name is unknown); a crypto token wins over an exchange suffix or a
\* currency pair
HasCryptoToken(symbol) ==
  \E k \in 1..Len(crypto_patterns), i \in 1..Len(symbol) :
    /\ i + Len(crypto_patterns[k]) - 1 <= Len(symbol)
    /\ \A j \in 1..Len(crypto_patterns[k]) :
         UpperChar(symbol[i + j - 1]) = crypto_patterns[k][j]

ConfiguredDefault(provider) ==
  CASE provider = "FINNHUB" -> "FINNHUB"
    [] provider = "ALPHAVANTAGE" -> "ALPHAVANTAGE"
    [] OTHER -> "YFINANCE"

C22_RouterBySymbol ==
  (arg \in RouterArgs /\ result # None) =>
    /\ result = Some(IF HasCryptoToken(arg[1]) THEN "BINANCE"
                     ELSE ConfiguredDefault(arg[2]))
    /\ arg[1] \in {sETHNS, sLINKNS, sUSDTRY} => result = Some("BINANCE")
    /\ arg[1] \in {sINFY, sEURUSD, sAAPL} => result # Some("BINANCE")

C22_Witness ==
  /\ arg = <<sETHNS, "FINNHUB">> /\ result = Some("BINANCE")
\* C23: a poll that brings no data (the adapter returns nothing or raises)
\* leaves the cache as it is; the poller creates or replaces an entry only
\* when its adapter call succeeded
C23_FailedPollKeepsCache ==
  [][ (proc = "up" /\ proc' = "up" /\ pollerPc = "calling" /\ pollerPc' # "calling") =>
        /\ lastSet' = lastSet => store' = store
        /\ store' # store =>
             /\ lastSet' # lastSet
             /\ store' = CacheSet(store, symbols[idx], lastSet'[Upper(symbols[idx])]) ]_vars

\* the poll of this pass brought nothing for a symbol whose quote of an
\* earlier pass is still in the cache
C23_Witness ==
  /\ proc = "up" /\ pollerPc = "pause"
  /\ Upper(symbols[idx]) \in DOMAIN store
  /\ store[Upper(symbols[idx])].timestamp < now
\* C24: a shutdown signalled while an adapter call of the poller is in flight
\* lets that call run to its end: the poller does not leave the call at the
\* moment of the signal, and it starts no other call afterwards
C24_ShutdownAwaitsCall ==
  [][Shutdown =>
       /\ pollerPc = "calling" => pollerPc' = "calling"
       /\ pollerPc # "calling" => pollerPc' # "calling"]_vars
\* the rows of the upstream chain at the expiry asked for, and those of them
\* that list at least one side
AtExpiry(chain) ==
  LET OfExpiry(r) == r.expiryDate = chain.expiry IN SelectSeq(chain.data, OfExpiry)

Sided(chain) ==
  LET HasSide(r) == r.CE # NaN \/ r.PE # NaN IN SelectSeq(AtExpiry(chain), HasSide)

Flattened == result # None /\ result[1].err = NoExc

\* C25: the flattened frame has exactly the rows of the asked expiry that list
\* a CE or a PE map: its strikes are the strikes of those rows, one row each,
\* and a row with neither side does not appear
C25_FlattenKeepsSidedRows ==
  Flattened =>
    LET flat == result[1].df
    IN  /\ {flat[i].strikePrice : i \in 1..Len(flat)} =
             {Sided(arg)[i].strikePrice : i \in 1..Len(Sided(arg))}
        /\ Len(flat) = Len(Sided(arg))
        /\ \A i \in 1..Len(flat) : flat[i].expiryDate = arg.expiry

\* C26: every flattened row carries the CE map and the PE map of the upstream
\* row of its own strike and expiry, and empty cells where that row has none
C26_FlattenKeepsRowTogether ==
  Flattened =>
    LET flat == result[1].df
    IN  \A i \in 1..Len(flat) :
          \E j \in 1..Len(arg.data) :
            /\ arg.data[j].strikePrice = flat[i].strikePrice
            /\ arg.data[j].expiryDate = flat[i].expiryDate
            /\ flat[i].CE = arg.data[j].CE
            /\ flat[i].PE = arg.data[j].PE

Selected == result # None /\ result[1].stage = "selected"

\* C27: for N >= 0 the band around the money is always returned: the ATM
\* strike is one nearest to the underlying value and the window runs from
\* max(0, atm - N) to min(last, atm + N), also when the underlying value lies
\* below the first or above the last strike
C27_BandingNeverFails ==
  (Selected /\ arg.num_strikes >= 0) =>
    LET sel == result[1].sel
        flat == result[1].df
        strikes == SortedSeq({flat[i].strikePrice : i \in 1..Len(flat)})
        last == Len(strikes) - 1
        u == arg.underlyingValue
        N == arg.num_strikes
    IN  /\ sel.err = NoExc
        /\ sel.atm \in 0..last
        /\ \A k \in 1..Len(strikes) : Abs(strikes[sel.atm + 1] - u) <= Abs(strikes[k] - u)
        /\ sel.selected = SubSeq(strikes, Max(0, sel.atm - N) + 1, Min(last, sel.atm + N) + 1)
        /\ u < strikes[1] => sel.selected = SubSeq(strikes, 1, Min(N, last) + 1)
        /\ u > strikes[Len(strikes)] => sel.selected = SubSeq(strikes, Max(0, last - N) + 1, last + 1)

\* the rows, ATM strike and range that a chain leads to
SnapshotOf(chain) ==
  LET p == prepare_option_chain_df(NseOf(chain), chain.expiry)
      q == df_processed(chain.data, p.df)
      sel == select_strikes(q.df, NseOf(chain), chain.num_strikes)
  IN  IF p.err # NoExc THEN [err |-> p.err, rows |-> <<>>, atmStrike |-> 0, range |-> <<>>]
      ELSE IF q.err # NoExc THEN [err |-> q.err, rows |-> <<>>, atmStrike |-> 0, range |-> <<>>]
      ELSE IF sel.err # NoExc THEN [err |-> sel.err, rows |-> <<>>, atmStrike |-> 0, range |-> <<>>]
      ELSE [err |-> NoExc, rows |-> sel.final, atmStrike |-> sel.strikes[sel.atm + 1],
            range |-> <<sel.selected[1], sel.selected[Len(sel.selected)]>>]

Reordered(chain) ==
  {[chain EXCEPT !.data = [i \in 1..Len(chain.data) |-> chain.data[f[i]]]] :
     f \in Permutations(1..Len(chain.data))}

\* C28: whatever the order of the upstream rows, the rows of the snapshot are
\* in ascending strike order and within the selected window, and a chain with
\* the same rows in another order gives the same rows, ATM strike and range
C28_SnapshotIgnoresRowOrder ==
  (Selected /\ result[1].sel.err = NoExc) =>
    LET sel == result[1].sel
    IN  /\ \A i \in 1..(Len(sel.final) - 1) :
             sel.final[i].strikePrice <= sel.final[i + 1].strikePrice
        /\ \A i \in 1..Len(sel.final) : sel.final[i].strikePrice \in Range(sel.selected)
        /\ \A other \in Reordered(arg) : SnapshotOf(other) = SnapshotOf(arg)
\* loss(K): what the option writers pay out if the index settles at K, over
\* every row that shows an open interest
LossAt(frame, K) ==
  LET RECURSIVE Total(_)
      Total(rows) ==
        IF rows = <<>> THEN 0
        ELSE LET r == Head(rows)
             IN  (IF r.strikePrice > K /\ r.CE_openInterest # NaN
                  THEN (r.strikePrice - K) * r.CE_openInterest[1] ELSE 0)
               + (IF r.strikePrice < K /\ r.PE_openInterest # NaN
                  THEN (K - r.strikePrice) * r.PE_openInterest[1] ELSE 0)
               + Total(Tail(rows))
  IN  Total(frame)

\* C21: for a non-empty flattened chain calculate_max_pain returns the lowest
\* strike K with the least loss(K), counting the open interest of every row
\* that has one whether or not the row has a last price, together with that
\* least loss; for an empty chain it returns no strike and the loss 0
C21_MaxPainIsLowestMinimum ==
  result # None =>
    LET Ks == {arg[i].strikePrice : i \in 1..Len(arg)}
    IN  IF arg = <<>>
        THEN result[1] = [max_pain_strike |-> None, max_loss_value |-> 0]
        ELSE \E K \in Ks :
               /\ \A other \in Ks : LossAt(arg, K) <= LossAt(arg, other)
               /\ \A other \in Ks : other < K => LossAt(arg, other) > LossAt(arg, K)
               /\ result[1] = [max_pain_strike |-> Some(K), max_loss_value |-> LossAt(arg, K)]
\* C29: a file under a final snapshot name always has its whole content, an
\* unfinished file has a temporary name only, and a reader of a final name,
\* whenever it opens and reads, gets a whole file
C29_FinalPathsComplete ==
  /\ \A n \in DOMAIN dir :
       inodes[dir[n]].written < Chunks => (n \notin AtomicTargets /\ StartsWith(n, <<"t","m","p">>))
  /\ \A n \in AtomicTargets \cap DOMAIN dir : inodes[dir[n]].written = Chunks
  /\ \A got \in reader.seen : got.path \in AtomicTargets /\ got.read = Chunks

\* the reader has read a CSV that was put in place while an unfinished file of
\* another writer was in the directory
C29_Witness ==
  /\ \E got \in reader.seen : got.path = SnapshotBase \o DotCsv
  /\ \E n \in DOMAIN dir : inodes[dir[n]].written < Chunks
  /\ SnapshotBase \o DotCsv \in DOMAIN dir
\* POST /options/fetch has been answered with success for the index written X
Posted(X) ==
  \E i \in 1..Len(served) :
    served[i].pc = "done" /\ served[i].status = 201 /\ served[i].index = X

\* C30: once POST /options/fetch has succeeded for an index written X, GET
\* /options/analytics and GET /analytics/pcr, /max-pain, /top-oi and /summary,
\* called with the same X, find the snapshot: none of them answers 404
C30_SameIndexFindsSnapshot ==
  [][\A X \in AliasInputs :
       Posted(X) =>
         /\ ApiAnalyticsForLatest(X) => analytics'.status # 404
         /\ GetPcr(X, None) => result'[1].status # 404
         /\ GetMaxPain(X, None) => result'[1].status # 404
         /\ GetTopOi(X, None) => result'[1].status # 404
         /\ GetAnalyticsSummary(X, None) => result'[1].status # 404]_vars

====
